---------------------------- MODULE Spec2Model ----------------------------
(***************************************************************************)
(* The invocation pipeline of discord/app/commands.py:                     *)
(*   ApplicationCommand.invoke -> prepare -> can_run -> call_before_hooks  *)
(*   -> hooked_wrapped_callback(_invoke) -> call_after_hooks,              *)
(* and ApplicationCommand.dispatch_error.                                  *)
(*                                                                         *)
(* One interaction context (ctx) is processed by one task.  Every await of *)
(* user code (bot check, predicate, hook, _invoke, error handler) is one   *)
(* step; what the user code does (return, return false, raise) is drawn    *)
(* nondeterministically at that step.  `log` records every piece of user   *)
(* code that ran, in order, with its outcome.                              *)
(***************************************************************************)
EXTENDS Integers, Sequences, FiniteSets, TLC

VARIABLES
    cmd,        \* the command: checks, _before_invoke, _after_invoke, on_error, cog
    bot,        \* ctx.bot: _before_invoke and _after_invoke slots
    ctx,        \* the InteractionContext: command, command_failed
    call,       \* the method of the command the task is running
    pc,         \* position of the task inside that method
    idx,        \* index of the next predicate of cmd.checks, or of the next hook
    pending,    \* outcome held by hooked_wrapped_callback while its finally runs
    error,      \* the error argument of dispatch_error
    result,     \* how the running method ended
    dispatched, \* events handed to ctx.bot.dispatch
    log,        \* user code run so far, with outcomes
    arg,        \* construction and validation: the function applied and its input
    ret,        \* construction and validation: what the function gave
    groups,     \* the SubCommandGroup objects, or the commands, constructed so far
    options,    \* self.options of the slash command invoked
    data,       \* ctx.interaction.data
    kwargs,     \* the keyword arguments _invoke has built
    running,    \* the command whose invoke is running, when the model tells commands apart
    stack       \* the groups whose _invoke awaits the invoke of a subcommand

\* the state of construction and validation, which the invocation pipeline
\* leaves alone
others == <<arg, ret, groups, options, data, kwargs, running, stack>>

vars == <<cmd, bot, ctx, call, pc, idx, pending, error, result, dispatched, log, others>>

-----------------------------------------------------------------------------
(* Bounds *)

MaxChecks == 2

-----------------------------------------------------------------------------
(* Exceptions *)

\* classes user code raises here; CheckFailure and ApplicationCommandInvokeError
\* derive from ApplicationCommandError, ValueError stands for any other Exception
UserFaults == {"ApplicationCommandError", "CheckFailure", "CancelledError", "ValueError"}

IsApplicationCommandError(cls) ==
    cls \in {"ApplicationCommandError", "CheckFailure", "ApplicationCommandInvokeError"}

IsCancelledError(cls) == cls = "CancelledError"

\* an exception object: its class, the code that raised it (its identity),
\* and __cause__ as <<class, origin>> of the original, <<>> when there is none
Exc(cls, origin) == [cls |-> cls, origin |-> origin, cause |-> <<>>]

NoExc == Exc("", "")

CheckFailure(origin) == Exc("CheckFailure", origin)

ApplicationCommandInvokeError(e) ==
    [cls |-> "ApplicationCommandInvokeError", origin |-> "wrapped",
     cause |-> <<e.cls, e.origin>>]

Pending == [kind |-> "pending", exc |-> NoExc]
Returned == [kind |-> "returned", exc |-> NoExc]
Raised(e) == [kind |-> "raised", exc |-> e]

\* what a piece of user code named `who` can do when awaited
UserOutcomes(who) == {Returned} \cup {Raised(Exc(c, who)) : c \in UserFaults}

-----------------------------------------------------------------------------
(* Log of user code *)

Entry(ev, n, out) == [ev |-> ev, n |-> n, out |-> out]

Out(o) == IF o.kind = "returned" THEN "return" ELSE o.exc.cls

Events(l) == {l[i].ev : i \in DOMAIN l}

Count(l, ev) == Cardinality({i \in DOMAIN l : l[i].ev = ev})

\* position of the first entry for ev, 0 when there is none
Pos(l, ev) ==
    IF ev \in Events(l) THEN CHOOSE i \in DOMAIN l : l[i].ev = ev /\ \A j \in 1..(i-1) : l[j].ev # ev
    ELSE 0

-----------------------------------------------------------------------------
(* Construction and registration *)

NoCog == [bound |-> FALSE, cog_before_invoke |-> FALSE, cog_after_invoke |-> FALSE,
          cog_command_error |-> FALSE]

\* a cog, with the hooks its class overrides (_get_overridden_method is not None)
Cogs == [bound : {TRUE}, cog_before_invoke : BOOLEAN, cog_after_invoke : BOOLEAN,
         cog_command_error : BOOLEAN]

\* self.checks: predicates 1..n in list order
CheckLists == {[i \in 1..n |-> i] : n \in 0..MaxChecks}

\* an interaction that has not been read
NoData == [read |-> FALSE]

EmptyDict == [n \in {} |-> "None"]

\* no slash command is reading its interaction
NoInteraction ==
    /\ options = <<>>
    /\ data = NoData
    /\ kwargs = EmptyDict
    /\ running = [type |-> "NoneType"]
    /\ stack = <<>>

interaction == <<options, data, kwargs, running, stack>>

\* nothing is being constructed or validated
NoConstruction ==
    /\ arg = [fn |-> "None"]
    /\ ret = [kind |-> "None"]
    /\ groups = <<>>
    /\ NoInteraction

Init ==
    /\ cmd \in [checks : CheckLists, _before_invoke : {FALSE}, _after_invoke : {FALSE},
                on_error : {FALSE}, cog : {NoCog} \cup Cogs]
    /\ bot \in [_before_invoke : BOOLEAN, _after_invoke : BOOLEAN]
    /\ ctx = [command |-> "None", command_failed |-> FALSE]
    /\ call = "None"
    /\ pc = "idle"
    /\ idx = 1
    /\ pending = Pending
    /\ error = NoExc
    /\ result = Pending
    /\ dispatched = <<>>
    /\ log = <<>>
    /\ NoConstruction

\* @command.before_invoke
before_invoke ==
    /\ pc = "idle"
    /\ ~cmd._before_invoke
    /\ cmd' = [cmd EXCEPT !._before_invoke = TRUE]
    /\ UNCHANGED <<bot, ctx, call, pc, idx, pending, error, result, dispatched, log, others>>

\* @command.after_invoke
after_invoke ==
    /\ pc = "idle"
    /\ ~cmd._after_invoke
    /\ cmd' = [cmd EXCEPT !._after_invoke = TRUE]
    /\ UNCHANGED <<bot, ctx, call, pc, idx, pending, error, result, dispatched, log, others>>

\* @command.error: afterwards hasattr(self, 'on_error')
error_handler ==
    /\ pc = "idle"
    /\ ~cmd.on_error
    /\ cmd' = [cmd EXCEPT !.on_error = TRUE]
    /\ UNCHANGED <<bot, ctx, call, pc, idx, pending, error, result, dispatched, log, others>>

-----------------------------------------------------------------------------
(* invoke: prepare and can_run *)

\* the method ends: its exception (or return) reaches the caller
Finish(o) ==
    /\ result' = o
    /\ pc' = "done"

\* mutant: prepare tags the context as failed as well
BoundAndTagged(c) == [c EXCEPT !.command = "self", !.command_failed = TRUE]

\* prepare: `ctx.command = self`, the only write of prepare to the context
Bound(c) == [c EXCEPT !.command = "self"]

\* invoke(ctx) is called; prepare binds the command and enters can_run
invoke ==
    /\ pc = "idle"
    /\ call' = "invoke"
    /\ ctx' = Bound(ctx)
    /\ pc' = "bot_can_run"
    /\ UNCHANGED <<cmd, bot, idx, pending, error, result, dispatched, log, others>>

\* can_run, after `await ctx.bot.can_run(ctx)` gave v
GlobalCheck(v) ==
    IF v THEN [pc |-> "checks", result |-> Pending]
    ELSE [pc |-> "done", result |-> Raised(CheckFailure("can_run"))]

\* mutant: prepare ignores what can_run returned
PrepareCheckIgnored(v) == [pc |-> "before", result |-> Pending]

\* prepare, after `await self.can_run(ctx)` gave v
PrepareCheck(v) ==
    IF v THEN [pc |-> "before", result |-> Pending]
    ELSE [pc |-> "done", result |-> Raised(CheckFailure("prepare"))]

\* async_all(gen), after element i of n gave v: the first false element
\* ends the iteration with False, the end of the iteration gives True
async_all(v, i, n) ==
    IF ~v THEN "False"
    ELSE IF i < n THEN "next"
    ELSE "True"

\* mutant: can_run turns every exception of a predicate into a CheckFailure
PredicateFaultAsCheckFailure(e) == Raised(CheckFailure("prepare"))

\* can_run and prepare catch nothing: an exception raised while a predicate
\* is evaluated leaves can_run, prepare and invoke as it is
PredicateFault(e) == Raised(e)

\* await ctx.bot.can_run(ctx)
bot_can_run ==
    /\ pc = "bot_can_run"
    /\ \/ \E v \in BOOLEAN :
            /\ log' = Append(log, Entry("bot_can_run", 0, IF v THEN "true" ELSE "false"))
            /\ pc' = GlobalCheck(v).pc
            /\ result' = GlobalCheck(v).result
       \/ \E c \in UserFaults :
            /\ log' = Append(log, Entry("bot_can_run", 0, c))
            /\ Finish(Raised(Exc(c, "bot_can_run")))
    /\ UNCHANGED <<cmd, bot, ctx, call, idx, pending, error, dispatched, others>>

\* `if not predicates: return True`
no_checks ==
    /\ pc = "checks"
    /\ cmd.checks = <<>>
    /\ pc' = PrepareCheck(TRUE).pc
    /\ UNCHANGED <<cmd, bot, ctx, call, idx, pending, error, result, dispatched, log, others>>

\* `return await async_all(predicate(ctx) for predicate in predicates)`:
\* predicate idx of self.checks is evaluated
predicate ==
    /\ pc = "checks"
    /\ idx \in DOMAIN cmd.checks
    /\ \/ \E v \in BOOLEAN :
            LET r == async_all(v, idx, Len(cmd.checks)) IN
            /\ log' = Append(log, Entry("check", cmd.checks[idx], IF v THEN "true" ELSE "false"))
            /\ IF r = "next"
               THEN pc' = "checks" /\ idx' = idx + 1 /\ UNCHANGED result
               ELSE /\ pc' = PrepareCheck(r = "True").pc
                    /\ result' = PrepareCheck(r = "True").result
                    /\ idx' = 1
       \/ \E c \in UserFaults :
            /\ log' = Append(log, Entry("check", cmd.checks[idx], c))
            /\ Finish(PredicateFault(Exc(c, "check")))
            /\ idx' = 1
    /\ UNCHANGED <<cmd, bot, ctx, call, pending, error, dispatched, others>>

-----------------------------------------------------------------------------
(* invoke: hooks and the wrapped _invoke *)

\* mutant: the bot-global hook is called first, the command-local hook last
call_before_hooks_bot_first == <<"before_bot", "before_cog", "before_local">>

\* the order in which call_before_hooks looks at the three hooks
call_before_hooks_order == <<"before_local", "before_cog", "before_bot">>

\* the order in which call_after_hooks looks at the three hooks
call_after_hooks_order == <<"after_local", "after_cog", "after_bot">>

\* whether hook h is there to be called
HookSet(h) ==
    CASE h = "before_local" -> cmd._before_invoke
      [] h = "before_cog" -> cmd.cog.bound /\ cmd.cog.cog_before_invoke
      [] h = "before_bot" -> bot._before_invoke
      [] h = "after_local" -> cmd._after_invoke
      [] h = "after_cog" -> cmd.cog.bound /\ cmd.cog.cog_after_invoke
      [] h = "after_bot" -> bot._after_invoke

\* mutant: call_before_hooks runs inside the wrapper, the fault is wrapped
BeforeHookFaultWrapped(e) ==
    IF IsApplicationCommandError(e.cls) \/ IsCancelledError(e.cls) THEN Raised(e)
    ELSE Raised(ApplicationCommandInvokeError(e))

\* prepare: a fault of a before-hook leaves call_before_hooks, prepare and
\* invoke as it is
BeforeHookFault(e) == Raised(e)

\* mutant: prepare is awaited inside the try of the wrapper, the finally
\* clause cleans up after a before-hook that raised
BeforeHookRaisedCleanup == "after"

\* invoke awaits prepare before it builds the wrapper: a before-hook that
\* raised ends the call, no finally clause is around it
BeforeHookRaised == "done"

\* call_before_hooks looks at hook idx of its order
call_before_hooks ==
    /\ pc = "before"
    /\ LET h == call_before_hooks_order[idx]
           advance == IF idx < Len(call_before_hooks_order)
                      THEN pc' = "before" /\ idx' = idx + 1
                      ELSE pc' = "injected" /\ idx' = 1
       IN IF HookSet(h)
          THEN \E o \in UserOutcomes(h) :
                 /\ log' = Append(log, Entry(h, 0, Out(o)))
                 /\ IF o.kind = "returned"
                    THEN advance /\ UNCHANGED result
                    ELSE /\ result' = BeforeHookFault(o.exc)
                         /\ pc' = BeforeHookRaised
                         /\ idx' = 1
          ELSE advance /\ UNCHANGED <<result, log>>
    /\ UNCHANGED <<cmd, bot, ctx, call, pending, error, dispatched, others>>

\* invoke: `injected = hooked_wrapped_callback(...)`, `await injected(ctx)`
\* enters the type-specific _invoke
injected ==
    /\ pc = "injected"
    /\ pc' = "_invoke"
    /\ log' = Append(log, Entry("_invoke", 0, "start"))
    /\ UNCHANGED <<cmd, bot, ctx, call, idx, pending, error, result, dispatched, others>>

\* the try/except of wrap_callback's wrapped, given how coro ended
wrap_callback(o) ==
    IF o.kind = "returned" THEN o
    ELSE IF IsApplicationCommandError(o.exc.cls) THEN o
    ELSE IF IsCancelledError(o.exc.cls) THEN Returned
    ELSE Raised(ApplicationCommandInvokeError(o.exc))

\* mutant: no `except ApplicationCommandError: raise` clause, command errors
\* are wrapped like any other exception
hooked_wrapped_callback_wrap_all(o) ==
    IF o.kind = "returned" THEN o
    ELSE IF IsCancelledError(o.exc.cls) THEN Returned
    ELSE Raised(ApplicationCommandInvokeError(o.exc))

\* mutant: no `except asyncio.CancelledError` clause, a cancellation is wrapped
\* like any other exception
hooked_wrapped_callback_no_cancel(o) ==
    IF o.kind = "returned" THEN o
    ELSE IF IsApplicationCommandError(o.exc.cls) THEN o
    ELSE Raised(ApplicationCommandInvokeError(o.exc))

\* the try/except of hooked_wrapped_callback's wrapped, given how coro ended:
\* what is in flight when the finally clause starts
hooked_wrapped_callback(o) ==
    IF o.kind = "returned" THEN o
    ELSE IF IsApplicationCommandError(o.exc.cls) THEN o
    ELSE IF IsCancelledError(o.exc.cls) THEN Returned
    ELSE Raised(ApplicationCommandInvokeError(o.exc))

\* mutant: `else:` in place of `finally:`, after-hooks on success only
AfterTryOnSuccess(o) == IF o.kind = "returned" THEN "after" ELSE "done"

\* the finally clause of hooked_wrapped_callback: where the task goes once the
\* try/except has settled, however coro ended
AfterTry(o) == "after"

\* a fault raised inside the finally clause replaces what was in flight
AfterHookFault(e) == Raised(e)

\* `ret = await coro(arg)`: the type-specific _invoke ends
InvokeEnds ==
    /\ pc = "_invoke"
    /\ \E o \in UserOutcomes("_invoke") :
         /\ log' = Append(log, Entry("_invoke", 0, Out(o)))
         /\ pending' = hooked_wrapped_callback(o)
         /\ pc' = AfterTry(o)
    /\ idx' = 1
    /\ IF pc' = "done" THEN result' = pending' ELSE UNCHANGED result
    /\ UNCHANGED <<cmd, bot, ctx, call, error, dispatched, others>>

\* call_after_hooks looks at hook idx of its order; after the last one the
\* wrapper ends with what was in flight
call_after_hooks ==
    /\ pc = "after"
    /\ LET h == call_after_hooks_order[idx]
           advance == IF idx < Len(call_after_hooks_order)
                      THEN pc' = "after" /\ idx' = idx + 1 /\ UNCHANGED result
                      ELSE Finish(pending) /\ idx' = 1
       IN IF HookSet(h)
          THEN \E o \in UserOutcomes(h) :
                 /\ log' = Append(log, Entry(h, 0, Out(o)))
                 /\ IF o.kind = "returned"
                    THEN advance
                    ELSE Finish(AfterHookFault(o.exc)) /\ idx' = 1
          ELSE advance /\ UNCHANGED log
    /\ UNCHANGED <<cmd, bot, ctx, call, pending, error, dispatched, others>>

-----------------------------------------------------------------------------
(* dispatch_error *)

\* the caller of invoke hands an error that left invoke to dispatch_error when
\* it is a command error (check-failure, invocation error, ...)
Routed(r) == r.kind = "raised" /\ IsApplicationCommandError(r.exc.cls)

\* `ctx.command_failed = True`
Tagged(c) == [c EXCEPT !.command_failed = TRUE]

\* mutant: dispatch_error goes to the cog's handler at once
AfterTaggingCogFirst == "cog_command_error"

\* dispatch_error, after tagging the context: the local handler is looked at first
AfterTagging == "on_error"

\* ctx.bot.dispatch('application_command_error', ctx, error)
Event(e) == [name |-> "application_command_error", ctx |-> "ctx", error |-> e]

\* dispatch_error(ctx, error) is called with the error that left invoke;
\* log and result from here on are those of this call
dispatch_error ==
    /\ pc = "done"
    /\ call = "invoke"
    /\ Routed(result)
    /\ call' = "dispatch_error"
    /\ error' = result.exc
    /\ ctx' = Tagged(ctx)
    /\ pc' = AfterTagging
    /\ result' = Pending
    /\ pending' = Pending
    /\ log' = <<>>
    /\ UNCHANGED <<cmd, bot, idx, dispatched, others>>

\* `coro = self.on_error` and, when it is there, `await injected(...)`;
\* an exception that leaves injected leaves dispatch_error
on_error ==
    /\ pc = "on_error"
    /\ IF cmd.on_error
       THEN \E o \in UserOutcomes("on_error") :
              /\ log' = Append(log, Entry("on_error", 0, Out(o)))
              /\ IF wrap_callback(o).kind = "returned"
                 THEN pc' = "cog_command_error" /\ UNCHANGED result
                 ELSE Finish(wrap_callback(o))
       ELSE pc' = "cog_command_error" /\ UNCHANGED <<result, log>>
    /\ UNCHANGED <<cmd, bot, ctx, call, idx, pending, error, dispatched, others>>

\* the try/finally: the cog's handler when the cog overrides it, then the event
cog_command_error ==
    /\ pc = "cog_command_error"
    /\ IF cmd.cog.bound /\ cmd.cog.cog_command_error
       THEN \E o \in UserOutcomes("cog_command_error") :
              /\ log' = log \o << Entry("cog_command_error", 0, Out(o)),
                                  Entry("application_command_error", 0, "event") >>
              /\ Finish(wrap_callback(o))
       ELSE /\ log' = Append(log, Entry("application_command_error", 0, "event"))
            /\ Finish(Returned)
    /\ dispatched' = Append(dispatched, Event(error))
    /\ UNCHANGED <<cmd, bot, ctx, call, idx, pending, error, others>>

-----------------------------------------------------------------------------
(* Reading the log *)

BeforeHooks == {"before_local", "before_cog", "before_bot"}
AfterHooks == {"after_local", "after_cog", "after_bot"}

\* the names of the entries of l whose event is in S, in order
Sub(l, S) ==
    LET picked == SelectSeq(l, LAMBDA e : e.ev \in S)
    IN [i \in DOMAIN picked |-> picked[i].ev]

\* the hooks of `order` that are there to be called, in order
SetHooks(order) == SelectSeq(order, HookSet)

IsPrefix(a, b) == Len(a) <= Len(b) /\ \A i \in DOMAIN a : a[i] = b[i]

Faulted(l, S) == \E i \in DOMAIN l : l[i].ev \in S /\ l[i].out \in UserFaults

\* position of the entry that records how _invoke ended, 0 before it ends
InvokeEnd(l) ==
    IF \E i \in DOMAIN l : l[i].ev = "_invoke" /\ l[i].out # "start"
    THEN CHOOSE i \in DOMAIN l : l[i].ev = "_invoke" /\ l[i].out # "start"
    ELSE 0

InvokeDone == call = "invoke" /\ pc = "done"

Next ==
    \/ before_invoke
    \/ after_invoke
    \/ error_handler
    \/ invoke
    \/ bot_can_run
    \/ no_checks
    \/ predicate
    \/ call_before_hooks
    \/ injected
    \/ InvokeEnds
    \/ call_after_hooks
    \/ dispatch_error
    \/ on_error
    \/ cog_command_error

Spec == Init /\ [][Next]_vars

-----------------------------------------------------------------------------
(* Values and strings *)

\* Python values are written as their literals; "empty" is
\* inspect.Parameter.empty and "None" is None
Falsy == {"None", "0", "''", "False"}

\* x or y
Or(x, y) == IF x \notin Falsy THEN x ELSE y

\* a str is the sequence of its characters; anything else is not a str
Str(s) == [type |-> "str", s |-> s]

NotStr == [type |-> "int"]

isinstance_str(v) == v.type = "str"

Lowercase == {"a"}
Uppercase == {"A"}
Chars == Lowercase \cup Uppercase \cup {" ", "1"}

\* str.islower(): no cased character is uppercase and there is at least one
\* cased character
islower(s) ==
    /\ \A i \in DOMAIN s : s[i] \notin Uppercase
    /\ \E i \in DOMAIN s : s[i] \in Lowercase

Repeat(c, n) == [i \in 1..n |-> c]

SeqsUpTo(S, n) == UNION {[1..k -> S] : k \in 0..n}

-----------------------------------------------------------------------------
(* Validation *)

MaxNameLength == 32

MaxDescriptionLength == 100

validate_chat_input_name(name) ==
    IF ~isinstance_str(name) THEN Raised(Exc("TypeError", "name"))
    ELSE IF \E i \in DOMAIN name.s : name.s[i] = " "
    THEN Raised(Exc("ValidationError", "spaces"))
    ELSE IF ~islower(name.s) THEN Raised(Exc("ValidationError", "lowercase"))
    ELSE IF Len(name.s) > MaxNameLength \/ Len(name.s) < 1
    THEN Raised(Exc("ValidationError", "length"))
    ELSE Returned

validate_chat_input_description(description) ==
    IF ~isinstance_str(description) THEN Raised(Exc("TypeError", "description"))
    ELSE IF Len(description.s) > MaxDescriptionLength \/ Len(description.s) < 1
    THEN Raised(Exc("ValidationError", "description"))
    ELSE Returned

-----------------------------------------------------------------------------
(* Option and the option builder, SlashCommand.parse_options *)

\* a call that returned a value
Gave(v) == [kind |-> "returned", exc |-> NoExc, value |-> v]

ClientException(what) == Exc("ClientException", what)

SlashCommandOptionType == {"string", "integer", "user", "channel", "role", "mentionable"}

\* SlashCommandOptionType.from_datatype, for the datatypes used here
from_datatype(datatype) ==
    CASE datatype = "str" -> "string"
      [] datatype = "int" -> "integer"
      [] OTHER -> "string"

\* Option(input_type, name=, required=, default=); name and default are None
\* and required is True when the keyword is not passed
Option(input_type, name, required, default) ==
    [name |-> name,
     input_type |-> IF input_type \in SlashCommandOptionType THEN input_type
                    ELSE from_datatype(input_type),
     required |-> required,
     default |-> default]

\* annotations of a parameter: none, a plain datatype, typing.Optional of a
\* datatype, an Option object
Empty == [kind |-> "empty"]
Plain(t) == [kind |-> "type", type |-> t]
OptionalOf(t) == [kind |-> "Optional", type |-> t]
Annotated(o) == [kind |-> "Option", option |-> o]

is_typing_optional(annotation) == annotation.kind = "Optional"

isinstance_Option(annotation) == annotation.kind = "Option"

\* one parameter of inspect.signature(callback): p.default is "empty" when
\* the parameter declares none
Parameter(name, annotation, default) ==
    [name |-> name, annotation |-> annotation, default |-> default]

FillDefaultOwnOnly(own, declared) == own

\* option.default = option.default or p_obj.default
FillDefault(own, declared) == Or(own, declared)

\* the body of the loop of parse_options, for the parameter p_obj
BuildOption(p_obj) ==
    LET a == IF p_obj.annotation = Empty THEN Plain("str") ELSE p_obj.annotation
        b == IF is_typing_optional(a)
             THEN Annotated(Option(a.type, "None", FALSE, "None"))
             ELSE a
        c == IF ~isinstance_Option(b)
             THEN [Option(b.type, "None", TRUE, "None")
                       EXCEPT !.required = IF p_obj.default # "empty" THEN FALSE ELSE @]
             ELSE b.option
        d == [c EXCEPT !.default = FillDefault(c.default, p_obj.default)]
        e == IF d.default = "empty" THEN [d EXCEPT !.default = "None"] ELSE d
    IN  IF e.name = "None" THEN [e EXCEPT !.name = p_obj.name] ELSE e

\* the parameters the iterator has consumed before the first option: "self"
\* when the command has a cog, then "ctx"
Skipped(cog) == IF cog.bound THEN 2 ELSE 1

parse_options(cog, params) ==
    IF cog.bound /\ Len(params) < 1 THEN Raised(ClientException("self"))
    ELSE IF Len(params) < Skipped(cog) THEN Raised(ClientException("ctx"))
    ELSE Gave([i \in 1..(Len(params) - Skipped(cog)) |-> BuildOption(params[i + Skipped(cog)])])

-----------------------------------------------------------------------------
(* Constructors: SlashCommand.__init__, ContextMenuCommand.__init__ *)

\* a keyword that was not passed, and the value None
Absent == [type |-> "absent"]
NoneValue == [type |-> "NoneType"]

\* kwargs.get(key) or other
GetOr(v, other) ==
    IF v \in {Absent, NoneValue} \/ (isinstance_str(v) /\ v.s = <<>>) THEN other ELSE v

\* kwargs.pop(key, other)
Pop(v, other) == IF v = Absent THEN other ELSE v

DefaultDescriptionLength == 23

\* "No description provided", the callback having no docstring
DefaultDescription == Str(Repeat("d", DefaultDescriptionLength))

\* whether func.__commands_checks__ is there (no AttributeError)
HasChecks(func) == "__commands_checks__" \in DOMAIN func

\* list.reverse(), as the content of the list afterwards
reverse(list) == [i \in DOMAIN list |-> list[Len(list) + 1 - i]]

\* the content of self.checks when __init__ ends: func.__commands_checks__
\* after checks.reverse(), or kwargs.get('checks', []) when func has none
ChecksGiven(func, attrs) ==
    IF HasChecks(func) THEN reverse(func.__commands_checks__)
    ELSE IF "checks" \in DOMAIN attrs THEN attrs.checks
    ELSE <<>>

\* SlashCommand(func, **kwargs): the command, or the exception __init__ raises
SlashCommand_init(func, attrs) ==
    LET name == GetOr(attrs.name, func.name)
        description == GetOr(attrs.description, DefaultDescription)
        parsed == parse_options(NoCog, func.params)
    IN  IF ~func.coroutine THEN Raised(Exc("TypeError", "coroutine"))
        ELSE IF validate_chat_input_name(name) # Returned
        THEN validate_chat_input_name(name)
        ELSE IF validate_chat_input_description(description) # Returned
        THEN validate_chat_input_description(description)
        ELSE IF parsed.kind = "raised" THEN parsed
        ELSE Gave([type |-> "SlashCommand", name |-> name, description |-> description,
                   is_subcommand |-> FALSE, cog |-> NoCog, options |-> parsed.value,
                   checks |-> ChecksGiven(func, attrs),
                   _before_invoke |-> FALSE, _after_invoke |-> FALSE])

validate_parameters(cls, cog, params) ==
    LET self == IF cog.bound THEN 1 ELSE 0
    IN  IF cog.bound /\ Len(params) < 1 THEN Raised(ClientException("self"))
        ELSE IF Len(params) < self + 1 THEN Raised(ClientException("ctx"))
        ELSE IF Len(params) < self + 2
        THEN Raised(ClientException(IF cls = "UserCommand" THEN "user" ELSE "message"))
        ELSE IF Len(params) > self + 2 THEN Raised(ClientException("too many"))
        ELSE Returned

\* cls(func, **kwargs) for cls UserCommand or MessageCommand
ContextMenuCommand_init(cls, func, attrs) ==
    LET name == Pop(attrs.name, func.name)
    IN  IF ~func.coroutine THEN Raised(Exc("TypeError", "coroutine"))
        ELSE IF ~isinstance_str(name) THEN Raised(Exc("TypeError", "name"))
        ELSE IF validate_parameters(cls, NoCog, func.params) # Returned
        THEN validate_parameters(cls, NoCog, func.params)
        ELSE Gave([type |-> cls, name |-> name, description |-> Str(<<>>), cog |-> NoCog,
                   checks |-> ChecksGiven(func, attrs)])

-----------------------------------------------------------------------------
(* Construction and validation, applied to bounded inputs *)

MaxLen == 2

MaxParams == 2

\* names up to MaxLen characters long, and the same followed by enough
\* characters to come close to MaxNameLength or pass it
Names ==
    {Str(s \o Repeat(c, n)) : s \in SeqsUpTo(Chars, MaxLen), c \in {"a", "1"},
                              n \in {0, MaxNameLength - 1, MaxNameLength}}
    \cup {NotStr}

self == Parameter("self", Empty, "empty")

context == Parameter("ctx", Empty, "empty")

\* what the callback declares before its options: "self" when it is a method
\* of a cog, then "ctx"
Receivers == {<<>>, <<self>>, <<context>>, <<self, context>>}

IsMethod(params) == Len(params) > 0 /\ params[1] = self

Annotations ==
    {Empty, Plain("int"), OptionalOf("int"), Annotated(Option("int", "None", TRUE, "None")),
     Annotated(Option("int", "n", TRUE, "0")), Annotated(Option("int", "None", TRUE, "d"))}

OptionParameters ==
    {Parameter(n, a, d) : n \in {"a", "b", "c"}, a \in Annotations, d \in {"empty", "0", "p"}}

\* parameter lists: the names of one signature are distinct
Signatures ==
    {r \o ps : r \in Receivers,
               ps \in {q \in SeqsUpTo(OptionParameters, MaxParams) :
                          \A i, j \in DOMAIN q : i # j => q[i].name # q[j].name}}

Function(coroutine, name, params) ==
    [coroutine |-> coroutine, name |-> name, params |-> params]

Keywords == [name : {Absent, Str(<<"a">>), Str(<<"A">>), NotStr},
             description : {Absent, Str(<<"d">>),
                            Str(Repeat("d", MaxDescriptionLength + 1))}]

SlashInputs ==
    {[fn |-> "slash_command", func |-> Function(TRUE, Str(<<"a">>), ps),
      kwargs |-> [name |-> Absent, description |-> Absent]] : ps \in Signatures}
    \cup {[fn |-> "slash_command", func |-> Function(c, n, <<context>>), kwargs |-> kw] :
            c \in BOOLEAN, n \in {Str(<<"a">>), Str(<<"A">>)}, kw \in Keywords}

Target == Parameter("target", Empty, "empty")

ContextMenuInputs ==
    {[fn |-> f, func |-> Function(c, Str(<<"a">>), r \o ps),
      kwargs |-> [name |-> n, description |-> Absent]] :
        f \in {"user_command", "message_command"}, c \in BOOLEAN, r \in Receivers,
        ps \in {<<>>, <<Target>>, <<Target, Parameter("a", Empty, "empty")>>},
        n \in {Absent, Str(<<"A", " ">>), NoneValue}}

NameInputs == {[fn |-> "validate_chat_input_name", name |-> n] : n \in Names}

\* the pipeline is not running
NoInvocation ==
    /\ cmd = [checks |-> <<>>, _before_invoke |-> FALSE, _after_invoke |-> FALSE,
              on_error |-> FALSE, cog |-> NoCog]
    /\ bot = [_before_invoke |-> FALSE, _after_invoke |-> FALSE]
    /\ ctx = [command |-> "None", command_failed |-> FALSE]
    /\ call = "None"
    /\ pc = "idle"
    /\ idx = 1
    /\ pending = Pending
    /\ error = NoExc
    /\ result = Pending
    /\ dispatched = <<>>
    /\ log = <<>>

pipeline == <<cmd, bot, ctx, call, pc, idx, pending, error, result, dispatched, log>>

ConstructInit ==
    /\ NoInvocation
    /\ arg \in NameInputs \cup SlashInputs \cup ContextMenuInputs
    /\ ret = [kind |-> "None"]
    /\ groups = <<>>
    /\ NoInteraction

validate_name ==
    /\ arg.fn = "validate_chat_input_name"
    /\ ret.kind = "None"
    /\ ret' = validate_chat_input_name(arg.name)
    /\ UNCHANGED <<arg, groups, pipeline, interaction>>

slash_command ==
    /\ arg.fn = "slash_command"
    /\ ret.kind = "None"
    /\ ret' = SlashCommand_init(arg.func, arg.kwargs)
    /\ UNCHANGED <<arg, groups, pipeline, interaction>>

user_command ==
    /\ arg.fn = "user_command"
    /\ ret.kind = "None"
    /\ ret' = ContextMenuCommand_init("UserCommand", arg.func, arg.kwargs)
    /\ UNCHANGED <<arg, groups, pipeline, interaction>>

message_command ==
    /\ arg.fn = "message_command"
    /\ ret.kind = "None"
    /\ ret' = ContextMenuCommand_init("MessageCommand", arg.func, arg.kwargs)
    /\ UNCHANGED <<arg, groups, pipeline, interaction>>

ConstructNext ==
    \/ validate_name
    \/ slash_command
    \/ user_command
    \/ message_command

SpecConstruct == ConstructInit /\ [][ConstructNext]_vars

-----------------------------------------------------------------------------
(* SubCommandGroup: construction, command and command_group *)

MaxGroups == 3

MaxSubcommands == 2

\* parent_group=None; other groups are named by their position in `groups`
NoGroup == 0

\* SubCommandGroup(name, description, parent_group=parent_group)
SubCommandGroup_init(name, description, parent_group) ==
    IF validate_chat_input_name(name) # Returned THEN validate_chat_input_name(name)
    ELSE IF validate_chat_input_description(description) # Returned
    THEN validate_chat_input_description(description)
    ELSE Gave([type |-> "SubCommandGroup", name |-> name, description |-> description,
               subcommands |-> <<>>, parent_group |-> parent_group, checks |-> <<>>,
               _before_invoke |-> FALSE, _after_invoke |-> FALSE, cog |-> NoCog])

NestedNever(group) == FALSE

\* if self.parent_group is not None
Nested(group) == group.parent_group # NoGroup

\* a subcommand that is a group is held by reference
Ref(g) == [type |-> "SubCommandGroup", id |-> g]

GroupsInit ==
    /\ NoInvocation
    /\ NoInteraction
    /\ arg = [fn |-> "None"]
    /\ ret = [kind |-> "None"]
    /\ \E name \in {Str(<<"a">>), Str(<<"a", "1">>)} :
          groups = <<SubCommandGroup_init(name, Str(<<"d">>), NoGroup).value>>

\* groups[g].command_group(name, description)
command_group ==
    \E g \in DOMAIN groups, name \in {Str(<<"a">>), Str(<<"A">>)},
       description \in {Str(<<"d">>)} :
        LET made == SubCommandGroup_init(name, description, g)
        IN  /\ Len(groups) < MaxGroups
            /\ Len(groups[g].subcommands) < MaxSubcommands
            /\ arg' = [fn |-> "command_group", self |-> g, name |-> name,
                       description |-> description]
            /\ IF Nested(groups[g])
               THEN /\ ret' = Raised(Exc("Exception", "nested once"))
                    /\ UNCHANGED groups
               ELSE IF made.kind = "raised"
               THEN /\ ret' = made
                    /\ UNCHANGED groups
               ELSE /\ ret' = Gave(Ref(Len(groups) + 1))
                    /\ groups' = Append([groups EXCEPT ![g].subcommands =
                                             Append(@, Ref(Len(groups) + 1))],
                                        made.value)
            /\ UNCHANGED <<pipeline, interaction>>

\* groups[g].command(**kwargs)(func)
command ==
    \E g \in DOMAIN groups,
       func \in {Function(TRUE, Str(<<"a">>), <<context, Parameter("a", Empty, "empty")>>),
                 Function(TRUE, Str(<<"a">>), <<>>)} :
        LET made == SlashCommand_init(func, [name |-> Absent, description |-> Absent])
        IN  /\ Len(groups[g].subcommands) < MaxSubcommands
            /\ arg' = [fn |-> "command", self |-> g, func |-> func]
            /\ IF made.kind = "raised"
               THEN /\ ret' = made
                    /\ UNCHANGED groups
               ELSE /\ ret' = Gave([made.value EXCEPT !.is_subcommand = TRUE])
                    /\ groups' = [groups EXCEPT ![g].subcommands =
                                      Append(@, [made.value EXCEPT !.is_subcommand = TRUE])]
            /\ UNCHANGED <<pipeline, interaction>>

GroupsNext ==
    \/ command_group
    \/ command

SpecGroups == GroupsInit /\ [][GroupsNext]_vars

-----------------------------------------------------------------------------
(* SlashCommand._invoke *)

MaxOptions == 2

MaxPayload == 2

\* SlashCommandOptionType.<member>.value
TypeValue(t) ==
    CASE t = "string" -> 3
      [] t = "integer" -> 4
      [] t = "user" -> 6
      [] t = "channel" -> 7
      [] t = "role" -> 8
      [] t = "mentionable" -> 9

\* the snowflakes an interaction can carry as option values, and int(arg)
Snowflakes == {"1", "2", "3"}

int(v) ==
    CASE v = "1" -> 1
      [] v = "2" -> 2
      [] v = "3" -> 3

\* the guild of the interaction: 1 is a member, 2 a role, 3 a channel
Guild == [member |-> {1}, role |-> {2}, channel |-> {3}]

\* the object get_or_fetch gives for an entity that exists, as its repr
Entity(name, id) ==
    CASE name = "member" -> (CASE id = 1 -> "Member(1)" [] id = 2 -> "Member(2)" [] OTHER -> "Member(3)")
      [] name = "role" -> (CASE id = 1 -> "Role(1)" [] id = 2 -> "Role(2)" [] OTHER -> "Role(3)")
      [] name = "channel" -> (CASE id = 1 -> "Channel(1)" [] id = 2 -> "Channel(2)" [] OTHER -> "Channel(3)")

\* await get_or_fetch(ctx.guild, name, id)
get_or_fetch(guild, name, id) ==
    IF id \in guild[name] THEN Gave(Entity(name, id))
    ELSE Raised(Exc("NotFound", name))

\* find(lambda x: x.name == name, seq): the first element with that name, or None
find(name, seq) ==
    IF \E i \in DOMAIN seq : seq[i].name = name
    THEN seq[CHOOSE i \in DOMAIN seq :
                 seq[i].name = name /\ \A j \in 1..(i - 1) : seq[j].name # name]
    ELSE NoneValue

\* ctx.interaction.data.get("options", [])
GetOptions(d) == IF "options" \in DOMAIN d THEN d.options ELSE <<>>

\* one call of get_or_fetch, named after the line that makes it
Lookup(ev, guild, name, id) ==
    [ev |-> ev, id |-> id, out |-> get_or_fetch(guild, name, id)]

MentionableNoFallback(guild, v) ==
    <<Lookup("mentionable_member", guild, "member", int(v))>>

\* the try/except of the mentionable branch: the lookups made, in order
Mentionable(guild, v) ==
    LET member == Lookup("mentionable_member", guild, "member", int(v))
    IN  <<member>>
        \o (IF member.out.kind = "raised" /\ member.out.exc.cls = "NotFound"
            THEN <<Lookup("mentionable_role", guild, "role", int(v))>>
            ELSE <<>>)

\* the lookups the loop body makes for a value v of option op
Lookups(guild, op, v) ==
    IF TypeValue("user") <= TypeValue(op.input_type)
         /\ TypeValue(op.input_type) <= TypeValue("role")
    THEN LET name == IF op.input_type = "user" THEN "member" ELSE op.input_type
         IN  <<Lookup(name, guild, name, int(v))>>
    ELSE IF op.input_type = "mentionable" THEN Mentionable(guild, v)
    ELSE <<>>

\* kwargs[name] = v
SetItem(d, name, v) ==
    [n \in DOMAIN d \cup {name} |-> IF n = name THEN v ELSE d[n]]

FillAbsentNever(d, opts) == d

\* for o in self.options: if o.name not in kwargs: kwargs[o.name] = o.default
FillAbsent(d, opts) ==
    [n \in DOMAIN d \cup {opts[i].name : i \in DOMAIN opts} |->
        IF n \in DOMAIN d THEN d[n] ELSE find(n, opts).default]

\* the options of a constructed slash command
Schemas ==
    SeqsUpTo({Option("string", "a", FALSE, "d"), Option("user", "a", TRUE, "None"),
              Option("mentionable", "b", TRUE, "None"), Option("string", "b", TRUE, "None")},
             MaxOptions)

\* the option list of an interaction: pairs of distinct names
Payloads ==
    {q \in SeqsUpTo([name : {"a", "b", "z"}, value : Snowflakes], MaxPayload) :
        \A i, j \in DOMAIN q : i # j => q[i].name # q[j].name}

SlashInit ==
    /\ cmd \in [checks : {<<>>}, _before_invoke : {FALSE}, _after_invoke : BOOLEAN,
                on_error : {FALSE}, cog : {NoCog}]
    /\ bot = [_before_invoke |-> FALSE, _after_invoke |-> FALSE]
    /\ ctx = [command |-> "None", command_failed |-> FALSE]
    /\ call = "None"
    /\ pc = "idle"
    /\ idx = 1
    /\ pending = Pending
    /\ error = NoExc
    /\ result = Pending
    /\ dispatched = <<>>
    /\ log = <<>>
    /\ arg = [fn |-> "None"]
    /\ ret = [kind |-> "None"]
    /\ groups = <<>>
    /\ options \in Schemas
    /\ data = NoData
    /\ kwargs = EmptyDict
    /\ running = NoneValue
    /\ stack = <<>>

\* _invoke is entered: kwargs = {}, and the options of the interaction are
\* read; the interaction arrives here unless a group has handed its option
\* block down
SlashCommand_invoke ==
    /\ pc = "_invoke"
    /\ running.type # "SubCommandGroup"
    /\ IF data = NoData
       THEN \E payload \in Payloads, present \in BOOLEAN :
               /\ present \/ payload = <<>>
               /\ data' = IF present THEN [name |-> "a", options |-> payload]
                          ELSE [name |-> "a"]
       ELSE UNCHANGED data
    /\ kwargs' = EmptyDict
    /\ idx' = 1
    /\ pc' = "options"
    /\ UNCHANGED <<cmd, bot, ctx, call, pending, error, result, dispatched, log,
                   arg, ret, groups, options, running, stack>>

\* _invoke raises e inside the wrapper
InvokeFault(e) ==
    /\ pending' = hooked_wrapped_callback(Raised(e))
    /\ pc' = AfterTry(Raised(e))
    /\ idx' = 1

\* one turn of `for arg in ctx.interaction.data.get("options", [])`
resolve ==
    /\ pc = "options"
    /\ idx \in DOMAIN GetOptions(data)
    /\ LET pair == GetOptions(data)[idx]
           op == find(pair.name, options)
       IN  IF op = NoneValue
           THEN /\ InvokeFault(Exc("AttributeError", "_invoke"))
                /\ UNCHANGED <<kwargs, log>>
           ELSE LET lookups == Lookups(Guild, op, pair.value)
                    last == IF lookups = <<>> THEN Gave(pair.value)
                            ELSE lookups[Len(lookups)].out
                IN  /\ log' = log \o [i \in DOMAIN lookups |->
                                        Entry(lookups[i].ev, lookups[i].id,
                                              Out(lookups[i].out))]
                    /\ IF last.kind = "raised"
                       THEN InvokeFault(last.exc) /\ UNCHANGED kwargs
                       ELSE /\ kwargs' = SetItem(kwargs, op.name, last.value)
                            /\ idx' = idx + 1
                            /\ UNCHANGED <<pc, pending>>
    /\ UNCHANGED <<cmd, bot, ctx, call, error, result, dispatched,
                   arg, ret, groups, options, data, running, stack>>

\* the options left out get their default, and the callback is awaited
callback ==
    /\ pc = "options"
    /\ idx \notin DOMAIN GetOptions(data)
    /\ kwargs' = FillAbsent(kwargs, options)
    /\ \E o \in UserOutcomes("callback") :
          /\ log' = Append(log, Entry("callback", 0, Out(o)))
          /\ pending' = hooked_wrapped_callback(o)
          /\ pc' = AfterTry(o)
    /\ idx' = 1
    /\ UNCHANGED <<cmd, bot, ctx, call, error, result, dispatched,
                   arg, ret, groups, options, data, running, stack>>

SlashNext ==
    \/ invoke
    \/ bot_can_run
    \/ no_checks
    \/ call_before_hooks
    \/ injected
    \/ SlashCommand_invoke
    \/ resolve
    \/ callback
    \/ call_after_hooks

SpecSlash == SlashInit /\ [][SlashNext]_vars

-----------------------------------------------------------------------------
(* SubCommandGroup._invoke *)

MaxChildren == 2

\* the fields of a command that invoke reads
CmdOf(c) ==
    [checks |-> c.checks, _before_invoke |-> c._before_invoke,
     _after_invoke |-> c._after_invoke, on_error |-> FALSE, cog |-> c.cog]

\* a subcommand: a SlashCommand built by group.command(), with checks and
\* hooks registered on it afterwards
Subcommand(name, checks, hooks) ==
    [type |-> "SlashCommand", name |-> name, description |-> DefaultDescription,
     is_subcommand |-> TRUE, cog |-> NoCog, options |-> <<>>,
     checks |-> checks, _before_invoke |-> hooks, _after_invoke |-> hooks]

Subcommands ==
    {Subcommand(n, <<1>>, FALSE) : n \in {Str(<<"a">>), Str(<<"a", "a">>)}}
    \cup {Subcommand(Str(<<"a">>), <<>>, TRUE)}

\* a top-level group with its subcommands, hooks registered on it or not
Group(subcommands, hooks) ==
    [SubCommandGroup_init(Str(<<"a">>), Str(<<"d">>), NoGroup).value
        EXCEPT !.subcommands = subcommands, !._before_invoke = hooks, !._after_invoke = hooks]

\* self.checks of the group: the empty list of the constructor, or predicate
\* 2 appended to it afterwards
GroupChecks == {<<>>, <<2>>}

\* the option blocks an interaction for the group can carry
Blocks ==
    {[type |-> "sub_command", name |-> n, options |-> <<>>] :
        n \in {Str(<<"a">>), Str(<<"a", "a">>), Str(<<"a", "1">>)}}

DispatchInit ==
    /\ \E subcommands \in SeqsUpTo(Subcommands, MaxChildren), hooks \in BOOLEAN,
          checks \in GroupChecks :
          /\ subcommands # <<>>
          /\ groups = <<[Group(subcommands, hooks) EXCEPT !.checks = checks]>>
    /\ running = groups[1]
    /\ cmd = CmdOf(running)
    /\ \E hooks \in BOOLEAN : bot = [_before_invoke |-> hooks, _after_invoke |-> hooks]
    /\ ctx = [command |-> "None", command_failed |-> FALSE]
    /\ call = "None"
    /\ pc = "idle"
    /\ idx = 1
    /\ pending = Pending
    /\ error = NoExc
    /\ result = Pending
    /\ dispatched = <<>>
    /\ log = <<>>
    /\ arg = [fn |-> "None"]
    /\ ret = [kind |-> "None"]
    /\ options = <<>>
    /\ data = NoData
    /\ kwargs = EmptyDict
    /\ stack = <<>>

\* position of the element find gives, 0 for None
IndexOf(name, seq) ==
    IF find(name, seq) = NoneValue THEN 0
    ELSE CHOOSE i \in DOMAIN seq : seq[i].name = name /\ \A j \in 1..(i - 1) : seq[j].name # name

FirstSubcommand(name, subcommands) == 1

\* the subcommand SubCommandGroup._invoke hands the context to: its position
\* in self.subcommands, 0 when find gives None
Chosen(name, subcommands) == IndexOf(name, subcommands)

\* mutant: the group awaits command._invoke(ctx), the subcommand runs without
\* a prepare of its own
AwaitedUnprepared == "_invoke"

\* `await command.invoke(ctx)`: the subcommand starts at the top of
\* ApplicationCommand.invoke, as any command does
Awaited == "idle"

\* SubCommandGroup._invoke up to `await command.invoke(ctx)`: the interaction
\* arrives, its first option block becomes ctx.interaction.data, and the
\* invoke of the subcommand found is entered
SubCommandGroup_invoke ==
    /\ pc = "_invoke"
    /\ running.type = "SubCommandGroup"
    /\ \E blocks \in {<<>>} \cup {<<b>> : b \in Blocks} :
          IF blocks = <<>>
          THEN /\ data' = [name |-> running.name, options |-> blocks]
               /\ InvokeFault(Exc("IndexError", "_invoke"))
               /\ UNCHANGED <<cmd, call, running, stack, options, log>>
          ELSE LET option == blocks[1]
                   i == Chosen(option.name, running.subcommands)
               IN  /\ data' = option
                   /\ IF i = 0
                      THEN /\ InvokeFault(Exc("AttributeError", "_invoke"))
                           /\ UNCHANGED <<cmd, call, running, stack, options, log>>
                      ELSE /\ stack' = Append(stack, [running |-> running, cmd |-> cmd])
                           /\ running' = running.subcommands[i]
                           /\ cmd' = CmdOf(running.subcommands[i])
                           /\ options' = running.subcommands[i].options
                           /\ log' = Append(log, Entry("subcommand", i, "invoke"))
                           /\ call' = "None"
                           /\ pc' = Awaited
                           /\ idx' = 1
                           /\ UNCHANGED pending
    /\ UNCHANGED <<bot, ctx, error, result, dispatched, arg, ret, groups, kwargs>>

\* `await command.invoke(ctx)` ends: what it returned or raised is what the
\* _invoke of the group returns or raises inside its wrapper
subcommand_invoked ==
    /\ pc = "done"
    /\ stack # <<>>
    /\ log' = Append(log, Entry("subcommand", 0, Out(result)))
    /\ pending' = hooked_wrapped_callback(result)
    /\ pc' = AfterTry(result)
    /\ idx' = 1
    /\ result' = Pending
    /\ running' = stack[Len(stack)].running
    /\ cmd' = stack[Len(stack)].cmd
    /\ stack' = SubSeq(stack, 1, Len(stack) - 1)
    /\ UNCHANGED <<bot, ctx, call, error, dispatched, arg, ret, groups, options, data, kwargs>>

DispatchNext ==
    \/ invoke
    \/ bot_can_run
    \/ no_checks
    \/ predicate
    \/ call_before_hooks
    \/ injected
    \/ SubCommandGroup_invoke
    \/ subcommand_invoked
    \/ SlashCommand_invoke
    \/ callback
    \/ call_after_hooks

SpecDispatch == DispatchInit /\ [][DispatchNext]_vars

-----------------------------------------------------------------------------
(* application_command: commands built from one callback *)

MaxCommands == 2

\* a function that carries a __commands_checks__ list
WithChecks(func, list) ==
    [coroutine |-> func.coroutine, name |-> func.name, params |-> func.params,
     __commands_checks__ |-> list]

\* the callbacks decorated here: f(ctx) and f(ctx, target), carrying a list of
\* predicates or not
Callbacks ==
    LET plain == {Function(TRUE, Str(<<"a">>), ps) : ps \in {<<context>>, <<context, Target>>}}
    IN  plain \cup {WithChecks(f, list) : f \in plain, list \in CheckLists}

Classes == {"SlashCommand", "UserCommand", "MessageCommand"}

\* **attrs of application_command(cls, **attrs)
DecoratorKeywords ==
    {[name |-> n, description |-> Absent] : n \in {Absent, Str(<<"A">>)}}
    \cup {[name |-> Absent, description |-> Absent, checks |-> <<1>>]}

\* cls(func, **attrs)
New(cls, func, attrs) ==
    IF cls = "SlashCommand" THEN SlashCommand_init(func, attrs)
    ELSE ContextMenuCommand_init(cls, func, attrs)

\* whether cls.__init__ gets to `checks = func.__commands_checks__`:
\* SlashCommand.__init__ after everything that can raise, ContextMenuCommand.__init__
\* after the tests of the callback and the name and before validate_parameters
ReachesChecks(cls, func, attrs) ==
    IF cls = "SlashCommand" THEN SlashCommand_init(func, attrs).kind = "returned"
    ELSE func.coroutine /\ isinstance_str(Pop(attrs.name, func.name))

\* func after `checks = func.__commands_checks__; checks.reverse()`: the list
\* the function carries is reversed in place
Reversed(func) ==
    IF HasChecks(func) THEN [func EXCEPT !.__commands_checks__ = reverse(@)] ELSE func

\* a command in `groups`: what __init__ gave, and whether its self.checks is
\* the list the function carries (`self.checks = checks`, no copy)
Built(made, func) == [command |-> made, shared |-> HasChecks(func)]

\* self.callback of a command built here: the one function
Callback(made) == arg.func

\* self.checks of the k-th command, read now
ChecksOf(k) ==
    IF groups[k].shared THEN arg.func.__commands_checks__ ELSE groups[k].command.checks

DecorateInit ==
    /\ NoInvocation
    /\ NoInteraction
    /\ arg \in {[fn |-> "application_command", func |-> f] : f \in Callbacks}
    /\ ret = [kind |-> "None"]
    /\ groups = <<>>

\* `return cls(func, **attrs)` of application_command.decorator
Construct(cls, func, attrs) ==
    /\ Len(groups) < MaxCommands
    /\ ret' = New(cls, func, attrs)
    /\ arg' = [arg EXCEPT !.func = IF ReachesChecks(cls, func, attrs)
                                   THEN Reversed(func) ELSE func]
    /\ groups' = IF New(cls, func, attrs).kind = "returned"
                 THEN Append(groups, Built(New(cls, func, attrs).value, func))
                 ELSE groups
    /\ UNCHANGED <<pipeline, interaction>>

\* application_command(cls, **attrs)(func), func the function or something
\* that is not callable
decorate ==
    \E cls \in Classes, attrs \in DecoratorKeywords, callable \in BOOLEAN :
        IF callable THEN Construct(cls, arg.func, attrs)
        ELSE /\ ret' = Raised(Exc("TypeError", "callable"))
             /\ UNCHANGED <<arg, groups, pipeline, interaction>>

\* application_command(cls, **attrs)(command), command built before:
\* `func = func.callback`
redecorate ==
    \E k \in DOMAIN groups, cls \in Classes, attrs \in DecoratorKeywords :
        Construct(cls, Callback(groups[k].command), attrs)

DecorateNext ==
    \/ decorate
    \/ redecorate

SpecDecorate == DecorateInit /\ [][DecorateNext]_vars

-----------------------------------------------------------------------------
(* C1..C10: the invocation pipeline and dispatch_error *)

\* C1: when the bot-global check or one of the command's own predicates
\* returns false, invoke ends raising a CheckFailure made by can_run or
\* prepare, and no before-hook, no _invoke and no after-hook has run.
C1_RejectedCheckRaisesCheckFailure ==
    call = "invoke" =>
        \A i \in DOMAIN log :
            (log[i].ev \in {"bot_can_run", "check"} /\ log[i].out = "false") =>
                /\ pc = "done"
                /\ result.kind = "raised"
                /\ result.exc.cls = "CheckFailure"
                /\ result.exc.origin = (IF log[i].ev = "bot_can_run" THEN "can_run" ELSE "prepare")
                /\ Events(log) \cap (BeforeHooks \cup AfterHooks \cup {"_invoke"}) = {}

\* C1 witness: the second predicate returned false with every hook set.
C1_Witness ==
    /\ InvokeDone
    /\ Len(log) = 3
    /\ log[3] = Entry("check", 2, "false")
    /\ SetHooks(call_before_hooks_order) = call_before_hooks_order
    /\ SetHooks(call_after_hooks_order) = call_after_hooks_order

C4_EventEmittedExactlyOnce ==
    (call = "dispatch_error" /\ pc = "done") => dispatched = <<Event(error)>>

\* C5: given that no after-hook raises, a command error raised by _invoke
\* leaves invoke as that same error, and any other exception that is no
\* cancellation leaves invoke as an ApplicationCommandInvokeError whose cause
\* is that exception.
C5_InvokeFaultPassedOrWrapped ==
    (/\ InvokeDone
     /\ InvokeEnd(log) > 0
     /\ log[InvokeEnd(log)].out \in UserFaults
     /\ ~IsCancelledError(log[InvokeEnd(log)].out)
     /\ ~Faulted(log, AfterHooks)) =>
        LET c == log[InvokeEnd(log)].out
        IN IF IsApplicationCommandError(c)
           THEN result = Raised(Exc(c, "_invoke"))
           ELSE /\ result.kind = "raised"
                /\ result.exc.cls = "ApplicationCommandInvokeError"
                /\ result.exc.cause = <<c, "_invoke">>

\* C5 witness: _invoke raised a plain exception, the after-hooks returned and
\* invoke ended with the wrapping error.
C5_Witness ==
    /\ InvokeDone
    /\ InvokeEnd(log) > 0
    /\ log[InvokeEnd(log)].out = "ValueError"
    /\ Sub(log, AfterHooks) # <<>>
    /\ ~Faulted(log, AfterHooks)
    /\ result.exc.cause = <<"ValueError", "_invoke">>

\* C6: in an invoke whose checks pass, the before-hooks that are set run in
\* the order command-local, cog-level, bot-global, each at most once, only
\* after the checks, and all of them have returned when _invoke starts.
C6_BeforeHooksInOrder ==
    call = "invoke" =>
        LET ran == Sub(log, BeforeHooks)
            want == SetHooks(<<"before_local", "before_cog", "before_bot">>)
        IN /\ IsPrefix(ran, want)
           /\ \A h \in BeforeHooks : Count(log, h) <= 1
           /\ \A i \in DOMAIN log : \A j \in DOMAIN log :
                (log[i].ev \in {"bot_can_run", "check"} /\ log[j].ev \in BeforeHooks) =>
                    i < j /\ log[i].out = "true"
           /\ "_invoke" \in Events(log) =>
                /\ ran = want
                /\ \A i \in DOMAIN log :
                     log[i].ev \in BeforeHooks => log[i].out = "return" /\ i < Pos(log, "_invoke")

\* C6 witness: the three before-hooks have run in order and _invoke has
\* started.
C6_Witness ==
    /\ call = "invoke"
    /\ pc = "_invoke"
    /\ Sub(log, BeforeHooks) = <<"before_local", "before_cog", "before_bot">>
    /\ cmd.checks # <<>>

\* C7 as amended: prepare does not tag the context; when a check-failure
\* leaves prepare ctx.command_failed is still false, and it is true in every
\* state of the dispatch_error call that follows (its first statement sets it).
C7_TaggedByDispatchErrorOnly ==
    /\ call = "invoke" => ~ctx.command_failed
    /\ call = "dispatch_error" => ctx.command_failed

\* C7 witness: prepare's CheckFailure has been handed to dispatch_error.
C7_Witness ==
    /\ call = "dispatch_error"
    /\ error = CheckFailure("prepare")
    /\ ctx.command_failed

\* C7 as stated: when a check-failure has left prepare the context is tagged
\* as failed.
C7_TaggedWhenCheckFailureLeavesPrepare ==
    (/\ InvokeDone
     /\ result.kind = "raised"
     /\ result.exc.cls = "CheckFailure"
     /\ Events(log) \subseteq {"bot_can_run", "check"}) => ctx.command_failed

\* C8 as amended: when a predicate raises while it is evaluated, prepare fails
\* with that same exception (a CheckFailure only when the predicate raised
\* one), and no later predicate, no before-hook and no _invoke runs.
C8_PredicateFaultPropagates ==
    call = "invoke" =>
        \A i \in DOMAIN log :
            (log[i].ev = "check" /\ log[i].out \in UserFaults) =>
                /\ i = Len(log)
                /\ pc = "done"
                /\ result = Raised(Exc(log[i].out, "check"))

\* C8 witness: the first of two predicates raised an exception that is no
\* CheckFailure, with a before-hook set.
C8_Witness ==
    /\ InvokeDone
    /\ Len(cmd.checks) = 2
    /\ cmd._before_invoke
    /\ log = <<Entry("bot_can_run", 0, "true"), Entry("check", 1, "ValueError")>>

\* C8 as stated: when a predicate raises while it is evaluated, prepare fails
\* with a CheckFailure, and no later predicate, no before-hook and no _invoke
\* runs.
C8_PredicateFaultIsCheckFailure ==
    call = "invoke" =>
        \A i \in DOMAIN log :
            (log[i].ev = "check" /\ log[i].out \in UserFaults) =>
                /\ i = Len(log)
                /\ pc = "done"
                /\ result.kind = "raised"
                /\ result.exc.cls = "CheckFailure"

\* C9: in dispatch_error the command-local handler, when registered, has run
\* and ended before the cog-level handler starts, and the event
\* application_command_error is emitted only after both.
C9_HandlersBeforeEvent ==
    call = "dispatch_error" =>
        LET local == Pos(log, "on_error")
            cog == Pos(log, "cog_command_error")
            event == Pos(log, "application_command_error")
        IN /\ \A e \in Events(log) : Count(log, e) = 1
           /\ (cog > 0 /\ cmd.on_error) => (0 < local /\ local < cog)
           /\ event > 0 =>
                /\ cmd.on_error => (0 < local /\ local < event)
                /\ (cmd.cog.bound /\ cmd.cog.cog_command_error) => (0 < cog /\ cog < event)
                /\ Len(dispatched) = 1

\* C9 witness: both handlers ran and the event was emitted.
C9_Witness ==
    /\ call = "dispatch_error"
    /\ Sub(log, {"on_error", "cog_command_error", "application_command_error"})
         = <<"on_error", "cog_command_error", "application_command_error">>

\* C10 as amended: a fault raised by a before-hook or an after-hook of the
\* command leaves its invoke as that same fault, not wrapped (only what
\* _invoke raises is wrapped), and it is the last user code of the call.
C10_HookFaultLeavesUnwrapped ==
    call = "invoke" =>
        \A i \in DOMAIN log :
            (log[i].ev \in BeforeHooks \cup AfterHooks /\ log[i].out \in UserFaults) =>
                /\ i = Len(log)
                /\ pc = "done"
                /\ result = Raised(Exc(log[i].out, log[i].ev))

\* C10 witness: the cog-level after-hook raised a plain exception while the
\* error of _invoke was in flight.
C10_Witness ==
    /\ InvokeDone
    /\ InvokeEnd(log) > 0
    /\ log[InvokeEnd(log)].out = "ValueError"
    /\ log[Len(log)] = Entry("after_cog", 0, "ValueError")
    /\ result = Raised(Exc("ValueError", "after_cog"))

\* C10 as stated: a fault of a hook that is neither a check-failure nor a
\* cancellation leaves invoke as an ApplicationCommandInvokeError whose cause
\* is that fault.
C10_HookFaultWrapped ==
    call = "invoke" =>
        \A i \in DOMAIN log :
            (log[i].ev \in BeforeHooks \cup AfterHooks /\ log[i].out = "ValueError") =>
                /\ pc = "done"
                /\ result.kind = "raised"
                /\ result.exc.cls = "ApplicationCommandInvokeError"
                /\ result.exc.cause = <<"ValueError", log[i].ev>>

-----------------------------------------------------------------------------
(* C15..C19: the option builder, validation and constructors *)

\* the callback is a coroutine function f(ctx, ...) given no name and no
\* description, so that nothing but its parameters decides the construction
Plainly(fn) ==
    /\ arg.fn = fn
    /\ ret.kind # "None"
    /\ arg.func.coroutine
    /\ arg.func.name = Str(<<"a">>)
    /\ arg.kwargs = [name |-> Absent, description |-> Absent]

\* the parameters after the leading k
After(params, k) == [i \in 1..(Len(params) - k) |-> params[i + k]]

\* C15: for a callback f(ctx, p1..pn) whose parameters carry a plain type, an
\* Optional[T] or no annotation, the builder gives exactly n options in
\* declaration order; option i is named after pi, has the type of pi's
\* annotation (string when there is none, T for Optional[T]), is not required
\* exactly when pi is Optional or declares a default, and has pi's declared
\* default (None when there is none).
C15_OptionsFollowParameters ==
    (/\ Plainly("slash_command")
     /\ Len(arg.func.params) > 0
     /\ arg.func.params[1] = context
     /\ \A i \in DOMAIN arg.func.params : ~isinstance_Option(arg.func.params[i].annotation))
    => LET p == After(arg.func.params, 1)
       IN  /\ ret.kind = "returned"
           /\ Len(ret.value.options) = Len(p)
           /\ \A i \in DOMAIN p :
                 LET o == ret.value.options[i]
                 IN  /\ o.name = p[i].name
                     /\ o.input_type = IF p[i].annotation = Empty THEN "string"
                                       ELSE from_datatype(p[i].annotation.type)
                     /\ o.required = ~(is_typing_optional(p[i].annotation)
                                         \/ p[i].default # "empty")
                     /\ o.default = IF p[i].default = "empty" THEN "None"
                                    ELSE p[i].default

C15_Witness ==
    /\ Plainly("slash_command")
    /\ arg.func.params = <<context, Parameter("b", OptionalOf("int"), "empty"),
                           Parameter("a", Empty, "0")>>
    /\ ret.kind = "returned"
    /\ Len(ret.value.options) = 2

\* C16: validate_chat_input_name raises for every string that has an uppercase
\* letter or a space, or is empty or longer than 32 characters, and returns
\* normally for every string of 1 to 32 characters without uppercase letter
\* and without space.
C16_NameRejectedExactlyWhenIllFormed ==
    (arg.fn = "validate_chat_input_name" /\ ret.kind # "None" /\ isinstance_str(arg.name))
    => LET s == arg.name.s
           illFormed == \/ \E i \in DOMAIN s : s[i] \in Uppercase \cup {" "}
                        \/ Len(s) = 0
                        \/ Len(s) > MaxNameLength
       IN  IF illFormed THEN ret.kind = "raised" ELSE ret = Returned

\* the owner parameter of a callback defined in a cog
Owner(params) == IF IsMethod(params) THEN 1 ELSE 0

\* C17: constructing a UserCommand or MessageCommand succeeds exactly when the
\* callback has, after the owner parameter (when it belongs to a cog) and the
\* context parameter, exactly one further parameter; with none it fails with
\* a ClientException naming the missing "user" or "message", with more than
\* one it fails with a ClientException for too many parameters.
C17_ExactlyOneTarget ==
    ((Plainly("user_command") \/ Plainly("message_command"))
       /\ Len(arg.func.params) > Owner(arg.func.params))
    => LET further == Len(arg.func.params) - Owner(arg.func.params) - 1
       IN  CASE further = 0 ->
                  ret = Raised(ClientException(IF arg.fn = "user_command" THEN "user"
                                               ELSE "message"))
             [] further = 1 -> ret.kind = "returned"
             [] OTHER -> ret = Raised(ClientException("too many"))

\* C18: for a slash command of a cog, whose callback has the parameters
\* (owner, ctx, p1..pn), the builder skips the owner and the context
\* parameter and derives exactly the options of p1..pn in order; when the
\* owner or the context parameter is missing it raises ClientException.
C18_OwnerAndContextSkipped ==
    (Plainly("slash_command") /\ IsMethod(arg.func.params))
    => IF Len(arg.func.params) < 2
       THEN ret.kind = "raised" /\ ret.exc.cls = "ClientException"
       ELSE /\ ret.kind = "returned"
            /\ Len(ret.value.options) = Len(arg.func.params) - 2
            /\ \A i \in DOMAIN ret.value.options :
                  ret.value.options[i] = BuildOption(arg.func.params[i + 2])

\* C19: an Option annotation whose own default has been set keeps it, whatever
\* the value (0, "", False included); the parameter's declared default is
\* copied only into an option whose own default is unset.
C19_OwnDefaultKept ==
    (/\ Plainly("slash_command")
     /\ Len(arg.func.params) > 0
     /\ arg.func.params[1] = context
     /\ ret.kind = "returned")
    => \A i \in DOMAIN ret.value.options :
          LET p == arg.func.params[i + 1]
          IN  (isinstance_Option(p.annotation) /\ p.annotation.option.default # "None")
              => ret.value.options[i].default = p.annotation.option.default

-----------------------------------------------------------------------------
(* C12: nesting of SubCommandGroup *)

\* C12: after any sequence of command_group and command calls, every group
\* with a parent has a parent without one (no nesting beyond two levels), and
\* command_group called on a group that has a parent raises, constructs no
\* group and leaves the subcommands unchanged.
C12_NestedOnce ==
    /\ [](\A g \in DOMAIN groups :
             groups[g].parent_group # NoGroup
             => groups[groups[g].parent_group].parent_group = NoGroup)
    /\ [][(arg'.fn = "command_group" /\ groups[arg'.self].parent_group # NoGroup)
          => (ret'.kind = "raised" /\ groups' = groups)]_vars

C12_Witness ==
    /\ arg.fn = "command_group"
    /\ groups[arg.self].parent_group # NoGroup
    /\ ret = Raised(Exc("Exception", "nested once"))
    /\ Len(groups[arg.self].subcommands) > 0

-----------------------------------------------------------------------------
(* C11, C14, C20: SlashCommand._invoke *)

OptionNames == {options[i].name : i \in DOMAIN options}

PayloadNames == {GetOptions(data)[i].name : i \in DOMAIN GetOptions(data)}

\* the interaction has been read
Read == data # NoData

\* _invoke has ended, by the callback or by a fault
InvokeOver == Read /\ pc \in {"after", "done"}

\* the value the callback is to get for a supplied value v of option op
Resolved(op, v) ==
    CASE op.input_type = "user" -> Entity("member", int(v))
      [] op.input_type = "mentionable" ->
            IF int(v) \in Guild.member THEN Entity("member", int(v))
            ELSE Entity("role", int(v))
      [] OTHER -> v

AfterHookRaised == \E i \in DOMAIN log : log[i].ev \in AfterHooks /\ log[i].out # "return"

\* a lookup left _invoke with NotFound: the one of a user option, or the
\* role lookup of a mentionable option
LookupFailed ==
    \E i \in DOMAIN log : log[i].ev \in {"member", "mentionable_role"} /\ log[i].out = "NotFound"

\* the keyword arguments expected: the keys are the option names
\* of the schema, a supplied name has its supplied, resolved value, an absent
\* one its option's default (None when it declares none); this is a function
\* of the set of pairs, not of their order
KeywordsAsClaimed ==
    /\ DOMAIN kwargs = OptionNames
    /\ \A i \in DOMAIN GetOptions(data) :
          LET pair == GetOptions(data)[i]
          IN  kwargs[pair.name] = Resolved(find(pair.name, options), pair.value)
    /\ \A n \in OptionNames \ PayloadNames : kwargs[n] = find(n, options).default

\* C11 as amended: when every option name of the payload belongs to the
\* schema and every entity lookup succeeds, the callback is called exactly
\* once, with the keyword arguments described above; when a lookup fails it
\* is not called at all.
C11_KeywordsGivenLookupsSucceed ==
    (Read /\ PayloadNames \subseteq OptionNames)
    => /\ Count(log, "callback") <= 1
       /\ (InvokeOver /\ ~LookupFailed) => Count(log, "callback") = 1
       /\ LookupFailed => Count(log, "callback") = 0
       /\ Count(log, "callback") = 1 => KeywordsAsClaimed

C11_Witness ==
    /\ options = <<Option("string", "a", FALSE, "d"), Option("mentionable", "b", TRUE, "None")>>
    /\ Read
    /\ GetOptions(data) = <<[name |-> "b", value |-> "2"]>>
    /\ Count(log, "callback") = 1
    /\ kwargs["a"] = "d"
    /\ kwargs["b"] = "Role(2)"

\* C11 as stated: when every option name of the payload belongs to the
\* schema, the callback is called exactly once, with the keyword arguments described
\* above.
C11_KeywordsFromPayloadAndDefaults ==
    (InvokeOver /\ PayloadNames \subseteq OptionNames)
    => /\ Count(log, "callback") = 1
       /\ KeywordsAsClaimed

\* the lookups of the mentionable branch are made member first, and the role
\* is looked up exactly when the member was not found, with the same id
MemberThenRole ==
    /\ \A i \in DOMAIN log :
          (log[i].ev = "mentionable_member" /\ log[i].out = "NotFound")
          => /\ i + 1 \in DOMAIN log
             /\ log[i + 1].ev = "mentionable_role"
             /\ log[i + 1].n = log[i].n
    /\ \A i \in DOMAIN log :
          log[i].ev = "mentionable_role"
          => /\ i - 1 \in DOMAIN log
             /\ log[i - 1] = Entry("mentionable_member", log[i].n, "NotFound")

\* the callback gets the member when there is one, else the role
MemberElseRolePassed ==
    Count(log, "callback") = 1
    => \A i \in DOMAIN GetOptions(data) :
          LET pair == GetOptions(data)[i]
              op == find(pair.name, options)
          IN  (op # NoneValue /\ op.input_type = "mentionable")
              => kwargs[op.name] = IF int(pair.value) \in Guild.member
                                   THEN Entity("member", int(pair.value))
                                   ELSE Entity("role", int(pair.value))

RoleNotFound == \E i \in DOMAIN log : log[i].ev = "mentionable_role" /\ log[i].out = "NotFound"

Unmatched == Read /\ ~(PayloadNames \subseteq OptionNames)

\* the fault that ended _invoke before the callback: the NotFound of the
\* lookup that failed, else the AttributeError of the unmatched pair
FaultOfInvoke ==
    IF LookupFailed
    THEN Exc("NotFound", IF RoleNotFound THEN "role" ELSE "member")
    ELSE Exc("AttributeError", "_invoke")

-----------------------------------------------------------------------------
(* C13: SubCommandGroup._invoke *)

\* positions of the log where the invoke of a subcommand was entered
Entered == {i \in DOMAIN log : log[i].ev = "subcommand" /\ log[i].out = "invoke"}

\* the _invoke of the group has ended
GroupInvokeOver ==
    /\ stack = <<>>
    /\ data # NoData
    /\ pc \in {"after", "done"}

\* C13: for a payload whose first option block names a subcommand,
\* SubCommandGroup._invoke sets ctx.interaction.data to that block and enters
\* the invoke pipeline of exactly one subcommand, one whose name is the
\* block's name, and of no other; the pipeline starts with the global check
\* and what it returns or raises is what the _invoke of the group ends with.
C13_OneSubcommandInvoked ==
    (data \in Blocks /\ find(data.name, groups[1].subcommands) # NoneValue)
    => /\ Cardinality(Entered) <= 1
       /\ \A i \in Entered : groups[1].subcommands[log[i].n].name = data.name
       /\ GroupInvokeOver
             => /\ Cardinality(Entered) = 1
                /\ \A i \in Entered :
                      /\ log[i + 1].ev = "bot_can_run"
                      /\ \E j \in (i + 1)..Len(log) :
                            /\ log[j].ev = "subcommand"
                            /\ \A k \in (j + 1)..Len(log) : log[k].ev \in AfterHooks
       /\ stack # <<>> => (Cardinality(Entered) = 1 /\ running.name = data.name)

C13_Witness ==
    /\ GroupInvokeOver
    /\ pc = "done"
    /\ \E i \in Entered : log[i].n = 2
    /\ Count(log, "callback") = 1
    /\ Count(log, "bot_can_run") = 2

-----------------------------------------------------------------------------
(* C23: a before-hook that raises *)

\* positions of the log where a before-hook raised
BeforeHookRaisedAt == {i \in DOMAIN log : log[i].ev \in BeforeHooks /\ log[i].out \in UserFaults}

\* C23: when a before-hook raises during prepare, that invoke call is over:
\* no later before-hook, no _invoke or callback and no after-hook of the
\* command runs (the after-hook cleanup covers only calls that reached
\* _invoke), and at most one before-hook raises in a call.
C23_BeforeHookFaultEndsCall ==
    (call = "invoke" /\ BeforeHookRaisedAt # {}) =>
        /\ pc = "done"
        /\ BeforeHookRaisedAt = {Len(log)}
        /\ Events(log) \cap (AfterHooks \cup {"_invoke", "callback"}) = {}
        /\ IsPrefix(Sub(log, BeforeHooks), SetHooks(call_before_hooks_order))

\* C23 witness: the command-local before-hook raised while the bot-global
\* before-hook and every after-hook were set; none of them ran.
C23_Witness ==
    /\ InvokeDone
    /\ log # <<>>
    /\ log[Len(log)] = Entry("before_local", 0, "ValueError")
    /\ HookSet("before_bot")
    /\ HookSet("after_local")
    /\ HookSet("after_cog")
    /\ HookSet("after_bot")
    /\ Count(log, "before_bot") = 0

-----------------------------------------------------------------------------
(* C22: the pipelines of a group and of its subcommand *)

\* position of the log where the invoke of the subcommand was entered, and
\* where it ended; 0 before that
EnteredAt == IF Entered = {} THEN 0 ELSE CHOOSE i \in Entered : TRUE

Left == {i \in DOMAIN log : log[i].ev = "subcommand" /\ log[i].out # "invoke"}

LeftAt == IF Left = {} THEN 0 ELSE CHOOSE i \in Left : TRUE

\* user code of the group before the subcommand, of the subcommand, and of
\* the group after the subcommand
Outer1 == SubSeq(log, 1, EnteredAt - 1)

Inner == SubSeq(log, EnteredAt + 1, IF LeftAt = 0 THEN Len(log) ELSE LeftAt - 1)

Outer2 == IF LeftAt = 0 THEN <<>> ELSE SubSeq(log, LeftAt + 1, Len(log))

\* the hooks of `order` set for command c (no cog here), in order
HooksOf(c, order) ==
    SelectSeq(order, LAMBDA h :
        CASE h \in {"before_local"} -> c._before_invoke
          [] h \in {"after_local"} -> c._after_invoke
          [] h \in {"before_bot"} -> bot._before_invoke
          [] h \in {"after_bot"} -> bot._after_invoke
          [] OTHER -> FALSE)

\* what a prepare of command c that went through leaves in the log, followed
\* by the entry into _invoke
Prepared(c) ==
    <<Entry("bot_can_run", 0, "true")>>
    \o [i \in DOMAIN c.checks |-> Entry("check", c.checks[i], "true")]
    \o [i \in DOMAIN HooksOf(c, call_before_hooks_order) |->
            Entry(HooksOf(c, call_before_hooks_order)[i], 0, "return")]
    \o <<Entry("_invoke", 0, "start")>>

TheGroup == groups[1]

TheChild == groups[1].subcommands[log[EnteredAt].n]

\* C22: when a subcommand is invoked through a group the two pipelines are
\* nested.  The global check, the checks and the before-hooks of the group
\* have all completed before anything of the subcommand starts; the subcommand
\* then goes through a prepare of its own, with the bot-global check and the
\* bot-global before-hook run a second time; its after-hooks, the bot-global
\* one included, run before the after-hooks of the group start, and the
\* bot-global after-hook runs again for the group.  Each level runs each
\* bot-global piece at most once, and exactly once when its pipeline gets
\* that far.
C22_PipelinesNested ==
    EnteredAt > 0 =>
        /\ Outer1 = Prepared(TheGroup)
        /\ Inner # <<>> => Inner[1].ev = "bot_can_run"
        /\ \A i \in DOMAIN Inner :
              /\ Inner[i].ev = "check" => \E k \in DOMAIN TheChild.checks : TheChild.checks[k] = Inner[i].n
              /\ Inner[i].ev = "bot_can_run" => i = 1
        /\ IsPrefix(Sub(Inner, BeforeHooks), HooksOf(TheChild, call_before_hooks_order))
        /\ IsPrefix(Sub(Inner, AfterHooks), HooksOf(TheChild, call_after_hooks_order))
        /\ "_invoke" \in Events(Inner) =>
              /\ IsPrefix(Prepared(TheChild), Inner)
              /\ (LeftAt > 0 /\ ~Faulted(Inner, AfterHooks)) =>
                    Sub(Inner, AfterHooks) = HooksOf(TheChild, call_after_hooks_order)
        /\ "_invoke" \notin Events(Inner) => Events(Inner) \cap AfterHooks = {}
        /\ \A i \in DOMAIN Outer2 : Outer2[i].ev \in AfterHooks
        /\ IsPrefix(Sub(Outer2, AfterHooks), HooksOf(TheGroup, call_after_hooks_order))
        /\ (LeftAt > 0 /\ stack = <<>> /\ pc = "done" /\ ~Faulted(Outer2, AfterHooks)) =>
              Sub(Outer2, AfterHooks) = HooksOf(TheGroup, call_after_hooks_order)

\* C22 witness: a group with a check and hooks of its own ran a subcommand
\* with a check of its own to the end, the bot-global hooks being set: the
\* check of the group came before the check of the subcommand, and the
\* bot-global check, before-hook and after-hook each ran twice.
C22_Witness ==
    /\ EnteredAt > 0
    /\ LeftAt > 0
    /\ stack = <<>>
    /\ pc = "done"
    /\ result = Returned
    /\ TheGroup.checks = <<2>>
    /\ TheGroup._after_invoke
    /\ TheChild.checks = <<1>>
    /\ Count(log, "callback") = 1
    /\ Count(log, "bot_can_run") = 2
    /\ Count(log, "before_bot") = 2
    /\ Count(log, "after_bot") = 2
    /\ Pos(log, "check") < EnteredAt
    /\ Sub(Outer2, AfterHooks) = <<"after_local", "after_bot">>

-----------------------------------------------------------------------------
(* C21: the names of the options of a SlashCommand *)

\* C21: in the option list of every SlashCommand that was constructed, every
\* option has a name (not None) and no two options have the same name.
C21_OptionNamesDistinct ==
    (arg.fn = "slash_command" /\ ret.kind = "returned") =>
        /\ \A i \in DOMAIN ret.value.options : ret.value.options[i].name # "None"
        /\ \A i, j \in DOMAIN ret.value.options :
              i # j => ret.value.options[i].name # ret.value.options[j].name

-----------------------------------------------------------------------------
(* C24: the checks of commands built from one callback *)

\* C24: constructing a command from a callback that carries a
\* __commands_checks__ list leaves the check order of the commands built from
\* that callback before as it was: all commands built from it have the same
\* check sequence, the one the first of them had when it was built.
C24_ChecksStayAsBuilt ==
    (arg.fn = "application_command" /\ HasChecks(arg.func)) =>
        \A k \in DOMAIN groups :
            /\ ChecksOf(k) = ChecksOf(1)
            /\ ChecksOf(k) = groups[1].command.checks

=============================================================================
